---- MODULE Spec2Model ----
(***************************************************************************)
(* Model of the RTC driver of stm32l4xx-hal (src/src/rtc.rs).              *)
(*                                                                         *)
(* The driver is single threaded; every register access it makes is one    *)
(* step of the model.  The peripheral runs beside it: it confirms the      *)
(* backup-domain write access and it sets and clears INITF on its own      *)
(* schedule.  The register file is a plain store of bit fields of the      *)
(* hardware's widths (the calendar does not tick); whether a write was     *)
(* made with write protection open and INITF set is recorded with the      *)
(* access in `trace'.                                                      *)
(***************************************************************************)
EXTENDS Integers, Sequences, FiniteSets, TLC

\* ------------------------------------------------------------------ bounds

\* Failed reads of a polling loop that are recorded in the access trace; the
\* loop itself spins on without bound.
MaxPoll == 2

\* ---------------------------------------------------------- u8 arithmetic

RECURSIVE BitAnd(_, _)
BitAnd(a, b) ==
    IF a = 0 \/ b = 0 THEN 0
    ELSE (IF a % 2 = 1 /\ b % 2 = 1 THEN 1 ELSE 0) + 2 * BitAnd(a \div 2, b \div 2)

RECURSIVE BitOr(_, _)
BitOr(a, b) ==
    IF a = 0 THEN b
    ELSE IF b = 0 THEN a
    ELSE (IF a % 2 = 1 \/ b % 2 = 1 THEN 1 ELSE 0) + 2 * BitOr(a \div 2, b \div 2)

RECURSIVE Pow2(_)
Pow2(n) == IF n = 0 THEN 1 ELSE 2 * Pow2(n - 1)

\* u8 << n and u8 >> n (n < 8): bits shifted out are lost.
Shl8(a, n) == (a * Pow2(n)) % 256
Shr8(a, n) == a \div Pow2(n)

\* `x as u8'
AsU8(x) == x % 256

\* ------------------------------------------------------------- BCD codec

\* byte_to_bcd2 with the loop condition `value > 10'
RECURSIVE bcd_loop_gt(_, _)
bcd_loop_gt(bcd_high, value) ==
    IF value > 10 THEN bcd_loop_gt(bcd_high + 1, value - 10)
    ELSE <<bcd_high, AsU8(BitOr(Shl8(bcd_high, 4), value))>>

byte_to_bcd2_gt(byte) == bcd_loop_gt(0, byte)

\* fn byte_to_bcd2(byte: u8) -> (u8, u8): the subtraction loop, then the pair
\* (bcd_high, (bcd_high << 4) | value).
RECURSIVE bcd_loop(_, _)
bcd_loop(bcd_high, value) ==
    IF value >= 10 THEN bcd_loop(bcd_high + 1, value - 10)
    ELSE <<bcd_high, AsU8(BitOr(Shl8(bcd_high, 4), value))>>

\* an encoder that keeps the high digit a decimal digit
byte_to_bcd2_clamped(byte) == bcd_loop(0, byte % 100)

byte_to_bcd2(byte) == bcd_loop(0, byte)

\* bcd2_to_byte reading `bcd.1 | bcd.0 << 4' as `(bcd.1 | bcd.0) << 4'
bcd2_to_byte_prec(bcd) ==
    LET value == Shl8(BitOr(bcd[2], bcd[1]), 4)
        tmp   == Shr8(BitAnd(value, 240), 4) * 10
    IN  tmp + BitAnd(value, 15)

\* fn bcd2_to_byte(bcd: (u8, u8)) -> u8
bcd2_to_byte(bcd) ==
    LET value == BitOr(bcd[2], Shl8(bcd[1], 4))
        tmp   == Shr8(BitAnd(value, 240), 4) * 10
    IN  tmp + BitAnd(value, 15)

\* ------------------------------------------------- register field layout

\* Widths in bits of the fields the driver writes with `.bits(v)'; a field
\* writer keeps the low `width' bits of its argument.
Width ==
    [ht |-> 2, hu |-> 4, mnt |-> 3, mnu |-> 4, st |-> 3, su |-> 4,
     dt |-> 2, du |-> 4, mu |-> 4, yt |-> 4, yu |-> 4, wdu |-> 3]

Field(f, v) == v % Pow2(Width[f])

\* 1970_u16, the year the date register's two year digits count from
Epoch == 1970

\* Keys of the write-protect register
KeyCA == 202
Key53 == 83
LockKey == 255

\* ------------------------------------------------------------------ state

VARIABLES
    op,      \* the driver operation running or last run: "rtc", "set_time", ...
    pc,      \* its position; "done" once it has returned
    arg,     \* the Time or Date passed to the set operation
    timer,   \* get_time's local `timer': the time register as read
    ret,     \* the value the last get operation returned
    wpi,     \* bytes of the running write_protection call already written
    polls,   \* failed reads of the running polling loop recorded in trace
    ext,     \* RCC APB1ENR1 / PWR CR1 / RCC BDCR bits the driver touches
    RTC,     \* the RTC register block
    trace,   \* register accesses of the operation, in program order
    last,    \* the arguments of the most recent set_time and set_date calls
    calc     \* a codec computation on its own: input, stage, results

drv == <<op, pc, arg, timer, ret, wpi, polls, ext, RTC, trace, last>>
vars == <<drv, calc>>

CalcOff == [stage |-> "off"]

NoValue == [kind |-> "none"]

\* No set_time and no set_date call made yet
NoLast == [time |-> NoValue, date |-> NoValue]

\* pub struct Time / Time::new
Time(hours, minutes, seconds, daylight_savings) ==
    [kind |-> "time", hours |-> hours, minutes |-> minutes, seconds |-> seconds,
     daylight_savings |-> daylight_savings]

\* pub struct Date / Date::new
Date(day, date, month, year) ==
    [kind |-> "date", day |-> day, date |-> date, month |-> month, year |-> year]

\* The arguments the callers of the model pass.
Times == {Time(0, 0, 0, TRUE), Time(23, 59, 59, FALSE), Time(9, 10, 45, TRUE)}
Dates == {Date(3, 15, 6, 2024), Date(7, 31, 12, 2069), Date(1, 1, 1, 1970)}

\* The RTC block after a backup-domain reset.
RtcReset ==
    [wpr  |-> "locked", init |-> 0, initf |-> 0, rsf |-> 0,
     cr   |-> [fmt |-> FALSE, osel |-> 0, pol |-> FALSE],
     prer |-> [prediv_s |-> 255, prediv_a |-> 127],
     orr  |-> [rtc_alarm_type |-> FALSE, rtc_out_rmp |-> FALSE],
     tr   |-> [ht |-> 0, hu |-> 0, mnt |-> 0, mnu |-> 0, st |-> 0, su |-> 0,
               pm |-> FALSE],
     dr   |-> [dt |-> 0, du |-> 1, mt |-> FALSE, mu |-> 1, yt |-> 0, yu |-> 0,
               wdu |-> 1]]

\* The backup domain keeps its registers across a system reset: what an
\* earlier firmware left there, or left half done, is what rtc() finds.
RtcRetained ==
    {RtcReset,
     [RtcReset EXCEPT !.cr = [fmt |-> TRUE, osel |-> 1, pol |-> TRUE],
                      !.prer = [prediv_s |-> 99, prediv_a |-> 9],
                      !.orr = [rtc_alarm_type |-> TRUE, rtc_out_rmp |-> TRUE],
                      !.tr.pm = TRUE, !.tr.hu = 7, !.dr.yt = 3],
     [RtcReset EXCEPT !.wpr = "unlocked", !.init = 1, !.initf = 1],
     [RtcReset EXCEPT !.initf = 1]}

ExtReset ==
    [rtcapben |-> 0, dbp_req |-> 0, dbp |-> 0, bdrst |-> 0, rtcsel |-> 0, rtcen |-> 0]

Init ==
    /\ op = "rtc"
    /\ pc = "apb1_enr"
    /\ arg = NoValue
    /\ timer = RtcReset.tr
    /\ ret = NoValue
    /\ wpi = 0
    /\ polls = 0
    /\ ext = ExtReset
    /\ RTC \in RtcRetained
    /\ trace = <<>>
    /\ last = NoLast
    /\ calc = CalcOff

\* One register access as the trace records it: read or write, the register,
\* the byte or bit of interest, and the protection state it was made in.
Acc(k, reg, v) ==
    [k |-> k, reg |-> reg, v |-> v, open |-> RTC.wpr = "unlocked", initf |-> RTC.initf]

Rd(reg, v) == <<Acc("r", reg, v)>>
Wr(reg, v) == <<Acc("w", reg, v)>>
\* reg.modify(..): a read, then a write
Modify(reg, v) == <<Acc("r", reg, 0), Acc("w", reg, v)>>

\* --------------------------------------------------------- the peripheral

\* The write-protect register's key sequence: 0xCA then 0x53 opens the
\* registers, any other byte closes them.
wpr_write(state, byte) ==
    IF byte = KeyCA THEN "key1"
    ELSE IF byte = Key53 /\ state = "key1" THEN "unlocked"
    ELSE "locked"

\* PWR confirms the backup-domain write access that was requested.
HwDbp ==
    /\ ext.dbp_req = 1 /\ ext.dbp = 0
    /\ ext' = [ext EXCEPT !.dbp = 1]
    /\ UNCHANGED <<op, pc, arg, timer, ret, wpi, polls, RTC, trace, last, calc>>

\* INITF follows INIT on the peripheral's own schedule; RSF is cleared by the
\* hardware in initialization mode.
HwInitfSet ==
    /\ RTC.init = 1 /\ RTC.initf = 0
    /\ RTC' = [RTC EXCEPT !.initf = 1, !.rsf = 0]
    /\ UNCHANGED <<op, pc, arg, timer, ret, wpi, polls, ext, trace, last, calc>>

HwInitfClear ==
    /\ RTC.init = 0 /\ RTC.initf = 1
    /\ RTC' = [RTC EXCEPT !.initf = 0]
    /\ UNCHANGED <<op, pc, arg, timer, ret, wpi, polls, ext, trace, last, calc>>

\* Out of initialization mode the clocked peripheral sets RSF each time it
\* copies the calendar into the shadow registers; software clears the flag by
\* writing 0.
HwRsfSet ==
    /\ ext.rtcen = 1 /\ ext.bdrst = 0
    /\ RTC.initf = 0 /\ RTC.rsf = 0
    /\ RTC' = [RTC EXCEPT !.rsf = 1]
    /\ UNCHANGED <<op, pc, arg, timer, ret, wpi, polls, ext, trace, last, calc>>

\* ------------------------------------------------- helpers of the driver

\* rtc.isr.write(|w| ..): the closure starts from the register's reset value,
\* so every writable bit it does not name is written with its reset value, 0.
isr_write(isr, init) == [isr EXCEPT !.init = init, !.rsf = 0]

\* write_protection with its two branches exchanged
write_protection_swapped(enable) ==
    IF enable THEN <<KeyCA, Key53>> ELSE <<LockKey>>

\* fn write_protection(rtc, enable): the bytes it writes to WPR, in order.
write_protection(enable) ==
    IF enable THEN <<LockKey>> ELSE <<KeyCA, Key53>>

\* init_mode requesting init mode whatever INITF reads
initf_ignored(initf) == TRUE

\* init_mode(rtc, true): `if isr.initf().bit_is_clear()'
initf_is_clear(initf) == initf = 0

\* Where each operation goes after init_mode(true) ...
AfterEnter ==
    CASE op = "rtc" -> "rtc_cr"
      [] op = "set_time" -> "st_tr"
      [] op = "set_date" -> "sd_dr"

\* A set operation returning without write_protection(true)
AfterExitNoLock == IF op = "rtc" THEN "rtc_or" ELSE "done"

\* rtc() locking right after init_mode(false), the OR write left out
AfterExitSkipOr == "wp_on"

\* ... after init_mode(false) ...
AfterExit == IF op = "rtc" THEN "rtc_or" ELSE "wp_on"

\* ... and after write_protection(false).
AfterUnlock == "init_read"

\* One write of write_protection: pc "wp_off" is the call with enable = false,
\* "wp_on" the call with enable = true, after which every operation returns.
WpStep ==
    /\ pc \in {"wp_off", "wp_on"}
    /\ LET bytes == write_protection(pc = "wp_on")
           byte  == bytes[wpi + 1]
       IN  /\ RTC' = [RTC EXCEPT !.wpr = wpr_write(RTC.wpr, byte)]
           /\ trace' = trace \o Wr("WPR", byte)
           /\ IF wpi + 1 < Len(bytes)
              THEN /\ wpi' = wpi + 1
                   /\ pc' = pc
              ELSE /\ wpi' = 0
                   /\ pc' = IF pc = "wp_off" THEN AfterUnlock ELSE "done"
    /\ UNCHANGED <<op, arg, timer, ret, polls, ext, last, calc>>

\* init_mode(rtc, true): read ISR; request init mode only if INITF is clear.
InitRead ==
    /\ pc = "init_read"
    /\ trace' = trace \o Rd("ISR", RTC.initf)
    /\ pc' = IF initf_is_clear(RTC.initf) THEN "init_req" ELSE AfterEnter
    /\ UNCHANGED <<op, arg, timer, ret, wpi, polls, ext, RTC, last, calc>>

\* rtc.isr.write(|w| w.init().set_bit())
InitRequest ==
    /\ pc = "init_req"
    /\ RTC' = isr_write(RTC, 1)
    /\ trace' = trace \o Wr("ISR", 1)
    /\ pc' = "init_poll"
    /\ polls' = 0
    /\ UNCHANGED <<op, arg, timer, ret, wpi, ext, last, calc>>

\* init_mode polling `while rtc.isr.read().initf().bit_is_set() {}'
InitPollUntilClear ==
    /\ pc = "init_poll"
    /\ IF RTC.initf = 0
       THEN /\ trace' = trace \o Rd("ISR", 0)
            /\ pc' = AfterEnter
            /\ polls' = 0
       ELSE /\ pc' = pc
            /\ IF polls < MaxPoll
               THEN trace' = trace \o Rd("ISR", 1) /\ polls' = polls + 1
               ELSE UNCHANGED <<trace, polls>>
    /\ UNCHANGED <<op, arg, timer, ret, wpi, ext, RTC, last, calc>>

\* while rtc.isr.read().initf().bit_is_clear() {}
InitPoll ==
    /\ pc = "init_poll"
    /\ IF RTC.initf = 1
       THEN /\ trace' = trace \o Rd("ISR", 1)
            /\ pc' = AfterEnter
            /\ polls' = 0
       ELSE /\ pc' = pc
            /\ IF polls < MaxPoll
               THEN trace' = trace \o Rd("ISR", 0) /\ polls' = polls + 1
               ELSE UNCHANGED <<trace, polls>>
    /\ UNCHANGED <<op, arg, timer, ret, wpi, ext, RTC, last, calc>>

\* init_mode(rtc, false) setting the init request instead of clearing it
InitExitSetsInit ==
    /\ pc = "init_exit"
    /\ RTC' = isr_write(RTC, 1)
    /\ trace' = trace \o Wr("ISR", 1)
    /\ pc' = AfterExit
    /\ UNCHANGED <<op, arg, timer, ret, wpi, polls, ext, last, calc>>

\* init_mode(rtc, false): rtc.isr.write(|w| w.init().clear_bit())
InitExit ==
    /\ pc = "init_exit"
    /\ RTC' = isr_write(RTC, 0)
    /\ trace' = trace \o Wr("ISR", 0)
    /\ pc' = AfterExit
    /\ UNCHANGED <<op, arg, timer, ret, wpi, polls, ext, last, calc>>

\* ------------------------------------------------------------- Rtc::rtc

\* apb1r1.enr().modify(|_, w| w.rtcapben().set_bit())
RtcApb1Enr ==
    /\ pc = "apb1_enr"
    /\ ext' = [ext EXCEPT !.rtcapben = 1]
    /\ trace' = trace \o Modify("APB1ENR1", 1)
    /\ pc' = "pwr_read"
    /\ UNCHANGED <<op, arg, timer, ret, wpi, polls, RTC, last, calc>>

\* pwrcr1.reg().read()
RtcPwrRead ==
    /\ pc = "pwr_read"
    /\ trace' = trace \o Rd("PWR_CR1", ext.dbp)
    /\ pc' = "dbp_set"
    /\ UNCHANGED <<op, arg, timer, ret, wpi, polls, ext, RTC, last, calc>>

\* pwrcr1.reg().modify(|_, w| w.dbp().set_bit())
RtcDbpSet ==
    /\ pc = "dbp_set"
    /\ ext' = [ext EXCEPT !.dbp_req = 1]
    /\ trace' = trace \o Modify("PWR_CR1", 1)
    /\ pc' = "dbp_poll"
    /\ polls' = 0
    /\ UNCHANGED <<op, arg, timer, ret, wpi, RTC, last, calc>>

\* rtc() reading DBP once and going on without waiting for it to be set
RtcDbpNoPoll ==
    /\ pc = "dbp_poll"
    /\ trace' = trace \o Rd("PWR_CR1", ext.dbp)
    /\ pc' = "bdrst"
    /\ polls' = 0
    /\ UNCHANGED <<op, arg, timer, ret, wpi, ext, RTC, last, calc>>

\* while pwrcr1.reg().read().dbp().bit_is_clear() {}
RtcDbpPoll ==
    /\ pc = "dbp_poll"
    /\ IF ext.dbp = 1
       THEN /\ trace' = trace \o Rd("PWR_CR1", 1)
            /\ pc' = "bdrst"
            /\ polls' = 0
       ELSE /\ pc' = pc
            /\ IF polls < MaxPoll
               THEN trace' = trace \o Rd("PWR_CR1", 0) /\ polls' = polls + 1
               ELSE UNCHANGED <<trace, polls>>
    /\ UNCHANGED <<op, arg, timer, ret, wpi, ext, RTC, last, calc>>

\* bdcr.enr().modify(|_, w| w.bdrst().set_bit()): the backup domain, the RTC
\* block with it, is reset.
RtcBdrst ==
    /\ pc = "bdrst"
    /\ ext' = [ext EXCEPT !.bdrst = 1, !.rtcsel = 0, !.rtcen = 0]
    /\ RTC' = RtcReset
    /\ trace' = trace \o Modify("BDCR", 1)
    /\ pc' = "clk_sel"
    /\ UNCHANGED <<op, arg, timer, ret, wpi, polls, last, calc>>

\* the clock-select write without `.bdrst().clear_bit()'
RtcClockSelectKeepReset ==
    /\ pc = "clk_sel"
    /\ ext' = [ext EXCEPT !.rtcsel = 2, !.rtcen = 1]
    /\ trace' = trace \o Modify("BDCR", 1)
    /\ pc' = "wp_off"
    /\ UNCHANGED <<op, arg, timer, ret, wpi, polls, RTC, last, calc>>

\* bdcr.enr().modify(|_, w| w.rtcsel().bits(0b10).rtcen().set_bit().bdrst().clear_bit())
RtcClockSelect ==
    /\ pc = "clk_sel"
    /\ ext' = [ext EXCEPT !.rtcsel = 2, !.rtcen = 1, !.bdrst = 0]
    /\ trace' = trace \o Modify("BDCR", 0)
    /\ pc' = "wp_off"
    /\ UNCHANGED <<op, arg, timer, ret, wpi, polls, RTC, last, calc>>

\* rtc.cr.modify(|_, w| w.fmt().clear_bit().osel().bits(0b00).pol().clear_bit())
RtcCr ==
    /\ pc = "rtc_cr"
    /\ RTC' = [RTC EXCEPT !.cr = [fmt |-> FALSE, osel |-> 0, pol |-> FALSE]]
    /\ trace' = trace \o Modify("CR", 0)
    /\ pc' = "rtc_prer"
    /\ UNCHANGED <<op, arg, timer, ret, wpi, polls, ext, last, calc>>

\* the prescaler write with the two dividers exchanged
RtcPrerSwapped ==
    /\ pc = "rtc_prer"
    /\ RTC' = [RTC EXCEPT !.prer = [prediv_s |-> 127, prediv_a |-> 255 % 128]]
    /\ trace' = trace \o Modify("PRER", 0)
    /\ pc' = "init_exit"
    /\ UNCHANGED <<op, arg, timer, ret, wpi, polls, ext, last, calc>>

\* rtc.prer.modify(|_, w| w.prediv_s().bits(255).prediv_a().bits(127))
RtcPrer ==
    /\ pc = "rtc_prer"
    /\ RTC' = [RTC EXCEPT !.prer = [prediv_s |-> 255, prediv_a |-> 127]]
    /\ trace' = trace \o Modify("PRER", 0)
    /\ pc' = "init_exit"
    /\ UNCHANGED <<op, arg, timer, ret, wpi, polls, ext, last, calc>>

\* rtc.or.modify(|_, w| w.rtc_alarm_type().clear_bit().rtc_out_rmp().clear_bit())
RtcOr ==
    /\ pc = "rtc_or"
    /\ RTC' = [RTC EXCEPT !.orr = [rtc_alarm_type |-> FALSE, rtc_out_rmp |-> FALSE]]
    /\ trace' = trace \o Modify("OR", 0)
    /\ pc' = "wp_on"
    /\ UNCHANGED <<op, arg, timer, ret, wpi, polls, ext, last, calc>>

\* ----------------------------------------- set_time, get_time, set_date, get_date

\* set_time writing the minutes' tens digit to the seconds' tens field
set_time_tr_st_mnt(time) ==
    LET h  == byte_to_bcd2(time.hours)
        mn == byte_to_bcd2(time.minutes)
        s  == byte_to_bcd2(time.seconds)
    IN  [ht  |-> Field("ht", h[1]),   hu  |-> Field("hu", h[2]),
         mnt |-> Field("mnt", mn[1]), mnu |-> Field("mnu", mn[2]),
         st  |-> Field("st", mn[1]),  su  |-> Field("su", s[2]),
         pm  |-> FALSE]

\* set_time: the value of `self.rtc.tr.write(..)' for `time'
set_time_tr(time) ==
    LET h  == byte_to_bcd2(time.hours)
        mn == byte_to_bcd2(time.minutes)
        s  == byte_to_bcd2(time.seconds)
    IN  [ht  |-> Field("ht", h[1]),   hu  |-> Field("hu", h[2]),
         mnt |-> Field("mnt", mn[1]), mnu |-> Field("mnu", mn[2]),
         st  |-> Field("st", s[1]),   su  |-> Field("su", s[2]),
         pm  |-> FALSE]

\* get_time: the Time built from the time register and the control register
get_time_value(tmr, cr) ==
    Time(bcd2_to_byte(<<tmr.ht, tmr.hu>>),
         bcd2_to_byte(<<tmr.mnt, tmr.mnu>>),
         bcd2_to_byte(<<tmr.st, tmr.su>>),
         cr.fmt)

\* set_date storing the year's last two digits instead of its offset from 1970
set_date_dr_no_epoch(date) ==
    LET d == byte_to_bcd2(date.date)
        m == byte_to_bcd2(date.month)
        y == byte_to_bcd2(AsU8(date.year % 100))
    IN  [dt  |-> Field("dt", d[1]), du |-> Field("du", d[2]),
         mt  |-> m[1] > 0,          mu |-> Field("mu", m[2]),
         yt  |-> Field("yt", y[1]), yu |-> Field("yu", y[2]),
         wdu |-> Field("wdu", date.day)]

\* set_date: the value of `self.rtc.dr.write(..)' for `date'
set_date_dr(date) ==
    LET d == byte_to_bcd2(date.date)
        m == byte_to_bcd2(date.month)
        y == byte_to_bcd2(AsU8((date.year - Epoch) % 65536))
    IN  [dt  |-> Field("dt", d[1]), du |-> Field("du", d[2]),
         mt  |-> m[1] > 0,          mu |-> Field("mu", m[2]),
         yt  |-> Field("yt", y[1]), yu |-> Field("yu", y[2]),
         wdu |-> Field("wdu", date.day)]

\* get_date decoding the month from its units digit alone
get_date_value_no_mt(dater) ==
    Date(dater.wdu,
         bcd2_to_byte(<<dater.dt, dater.du>>),
         bcd2_to_byte(<<0, dater.mu>>),
         (bcd2_to_byte(<<dater.yt, dater.yu>>) + Epoch) % 65536)

\* get_date: the Date built from the date register
get_date_value(dater) ==
    Date(dater.wdu,
         bcd2_to_byte(<<dater.dt, dater.du>>),
         bcd2_to_byte(<<IF dater.mt THEN 1 ELSE 0, dater.mu>>),
         (bcd2_to_byte(<<dater.yt, dater.yu>>) + Epoch) % 65536)

\* A caller starts an operation once the previous one has returned.
Begin(o, a, first) ==
    /\ op' = o
    /\ arg' = a
    /\ pc' = first
    /\ trace' = <<>>
    /\ ret' = NoValue
    /\ last' = CASE o = "set_time" -> [last EXCEPT !.time = a]
                 [] o = "set_date" -> [last EXCEPT !.date = a]
                 [] OTHER -> last
    /\ UNCHANGED <<timer, wpi, polls, ext, RTC, calc>>

CallSetTime ==
    /\ pc = "done"
    /\ \E t \in Times : Begin("set_time", t, "wp_off")

CallSetDate ==
    /\ pc = "done"
    /\ \E d \in Dates : Begin("set_date", d, "wp_off")

CallGetTime ==
    /\ pc = "done"
    /\ Begin("get_time", NoValue, "gt_tr")

CallGetDate ==
    /\ pc = "done"
    /\ Begin("get_date", NoValue, "gd_dr")

\* self.rtc.tr.write(|w| w.ht().bits(ht) ... .pm().clear_bit())
SetTimeTr ==
    /\ pc = "st_tr"
    /\ RTC' = [RTC EXCEPT !.tr = set_time_tr(arg)]
    /\ trace' = trace \o Wr("TR", 0)
    /\ pc' = "st_cr"
    /\ UNCHANGED <<op, arg, timer, ret, wpi, polls, ext, last, calc>>

\* set_time writing `w.fmt().clear_bit()' whatever the caller's flag
SetTimeCrClears ==
    /\ pc = "st_cr"
    /\ RTC' = [RTC EXCEPT !.cr.fmt = FALSE]
    /\ trace' = trace \o Modify("CR", 0)
    /\ pc' = "init_exit"
    /\ UNCHANGED <<op, arg, timer, ret, wpi, polls, ext, last, calc>>

\* self.rtc.cr.modify(|_, w| w.fmt().bit(time.daylight_savings))
SetTimeCr ==
    /\ pc = "st_cr"
    /\ RTC' = [RTC EXCEPT !.cr.fmt = arg.daylight_savings]
    /\ trace' = trace \o Modify("CR", IF arg.daylight_savings THEN 1 ELSE 0)
    /\ pc' = "init_exit"
    /\ UNCHANGED <<op, arg, timer, ret, wpi, polls, ext, last, calc>>

\* set_date writing the time register back to its reset value as well
SetDateDrClearsTr ==
    /\ pc = "sd_dr"
    /\ RTC' = [RTC EXCEPT !.dr = set_date_dr(arg), !.tr = RtcReset.tr]
    /\ trace' = trace \o Wr("DR", 0)
    /\ pc' = "init_exit"
    /\ UNCHANGED <<op, arg, timer, ret, wpi, polls, ext, last, calc>>

\* self.rtc.dr.write(|w| w.dt().bits(dt) ... .wdu().bits(date.day))
SetDateDr ==
    /\ pc = "sd_dr"
    /\ RTC' = [RTC EXCEPT !.dr = set_date_dr(arg)]
    /\ trace' = trace \o Wr("DR", 0)
    /\ pc' = "init_exit"
    /\ UNCHANGED <<op, arg, timer, ret, wpi, polls, ext, last, calc>>

\* let timer = self.rtc.tr.read();
GetTimeTr ==
    /\ pc = "gt_tr"
    /\ timer' = RTC.tr
    /\ trace' = trace \o Rd("TR", 0)
    /\ pc' = "gt_cr"
    /\ UNCHANGED <<op, arg, ret, wpi, polls, ext, RTC, last, calc>>

\* let cr = self.rtc.cr.read(); time = Time::new(..); then
\* write_protection(&self.rtc, true) and the return of `time'
GetTimeCr ==
    /\ pc = "gt_cr"
    /\ ret' = get_time_value(timer, RTC.cr)
    /\ trace' = trace \o Rd("CR", 0)
    /\ pc' = "wp_on"
    /\ UNCHANGED <<op, arg, timer, wpi, polls, ext, RTC, last, calc>>

\* let dater = self.rtc.dr.read(); date = Date::new(..); date
GetDateDr ==
    /\ pc = "gd_dr"
    /\ ret' = get_date_value(RTC.dr)
    /\ trace' = trace \o Rd("DR", 0)
    /\ pc' = "done"
    /\ UNCHANGED <<op, arg, timer, wpi, polls, ext, RTC, last, calc>>

Next ==
    \/ RtcApb1Enr \/ RtcPwrRead \/ RtcDbpSet \/ RtcDbpPoll \/ RtcBdrst
    \/ RtcClockSelect \/ RtcCr \/ RtcPrer \/ RtcOr
    \/ WpStep \/ InitRead \/ InitRequest \/ InitPoll \/ InitExit
    \/ CallSetTime \/ CallSetDate \/ CallGetTime \/ CallGetDate
    \/ SetTimeTr \/ SetTimeCr \/ SetDateDr
    \/ GetTimeTr \/ GetTimeCr \/ GetDateDr
    \/ HwDbp \/ HwInitfSet \/ HwInitfClear \/ HwRsfSet

Spec == Init /\ [][Next]_vars

\* The statements of the running operation: the processor executes the next
\* one as long as there is one.
DriverStep ==
    \/ RtcApb1Enr \/ RtcPwrRead \/ RtcDbpSet \/ RtcDbpPoll \/ RtcBdrst
    \/ RtcClockSelect \/ RtcCr \/ RtcPrer \/ RtcOr
    \/ WpStep \/ InitRead \/ InitRequest \/ InitPoll \/ InitExit
    \/ SetTimeTr \/ SetTimeCr \/ SetDateDr
    \/ GetTimeTr \/ GetTimeCr \/ GetDateDr

\* The driver under its scheduling: single threaded and blocking, it runs
\* each operation on; nothing is assumed of the peripheral or of the callers.
SpecFair == Init /\ [][Next]_vars /\ WF_vars(DriverStep)

\* ------------------------------------------- the codec and the fields alone

\* The driver at rest, for the specifications that run a computation alone.
DrvRest ==
    /\ op = "rtc" /\ pc = "apb1_enr" /\ arg = NoValue /\ timer = RtcReset.tr
    /\ ret = NoValue /\ wpi = 0 /\ polls = 0 /\ ext = ExtReset /\ RTC = RtcReset
    /\ trace = <<>> /\ last = NoLast

\* byte_to_bcd2 on every value of two decimal digits, then bcd2_to_byte on the
\* pair as returned ("pair") or on its elements cut to 4-bit fields ("fields").
BcdInputs == 0..99

InitBcd ==
    /\ DrvRest
    /\ calc \in {[stage |-> "in", v |-> v] : v \in BcdInputs}

BcdEncode ==
    /\ calc.stage = "in"
    /\ calc' = [stage |-> "enc", v |-> calc.v, pair |-> byte_to_bcd2(calc.v)]
    /\ UNCHANGED drv

BcdDecode ==
    /\ calc.stage = "enc"
    /\ \E via \in {"pair", "fields"} :
          calc' = [stage |-> "dec", v |-> calc.v, pair |-> calc.pair, via |-> via,
                   back |-> bcd2_to_byte(
                       IF via = "pair" THEN calc.pair
                       ELSE <<Field("yt", calc.pair[1]), Field("yu", calc.pair[2])>>)]
    /\ UNCHANGED drv

NextBcd == BcdEncode \/ BcdDecode

SpecBcd == InitBcd /\ [][NextBcd]_vars

\* byte_to_bcd2 on the u8 values that are not two decimal digits.
BcdHighInputs == 100..255

InitBcdHigh ==
    /\ DrvRest
    /\ calc \in {[stage |-> "in", v |-> v] : v \in BcdHighInputs}

NextBcdHigh == BcdEncode

SpecBcdHigh == InitBcdHigh /\ [][NextBcdHigh]_vars

\* set_time then get_time on a register model, for every valid Time.
InitTime ==
    /\ DrvRest
    /\ \E h \in 0..23, m \in 0..59, s \in 0..59, d \in BOOLEAN :
          calc = [stage |-> "in", time |-> Time(h, m, s, d)]

\* set_time's two register writes
TimeSet ==
    /\ calc.stage = "in"
    /\ calc' = [stage |-> "set", time |-> calc.time,
                tr |-> set_time_tr(calc.time),
                cr |-> [RtcReset.cr EXCEPT !.fmt = calc.time.daylight_savings]]
    /\ UNCHANGED drv

\* get_time's two register reads and the Time it builds
TimeGet ==
    /\ calc.stage = "set"
    /\ calc' = [stage |-> "got", time |-> calc.time, tr |-> calc.tr, cr |-> calc.cr,
                out |-> get_time_value(calc.tr, calc.cr)]
    /\ UNCHANGED drv

NextTime == TimeSet \/ TimeGet

SpecTime == InitTime /\ [][NextTime]_vars

\* set_date then get_date on a register model, for every valid Date of the
\* hundred years from the epoch.
InitDate ==
    /\ DrvRest
    /\ \E w \in 1..7, d \in 1..31, m \in 1..12, y \in Epoch..(Epoch + 99) :
          calc = [stage |-> "in", date |-> Date(w, d, m, y)]

DateSet ==
    /\ calc.stage = "in"
    /\ calc' = [stage |-> "set", date |-> calc.date, dr |-> set_date_dr(calc.date)]
    /\ UNCHANGED drv

DateGet ==
    /\ calc.stage = "set"
    /\ calc' = [stage |-> "got", date |-> calc.date, dr |-> calc.dr,
                out |-> get_date_value(calc.dr)]
    /\ UNCHANGED drv

NextDate == DateSet \/ DateGet

SpecDate == InitDate /\ [][NextDate]_vars

\* ================================================================ claims

SetOps == {"set_time", "set_date"}
GetOps == {"get_time", "get_date"}

IsWrite(e, reg) == e.k = "w" /\ e.reg = reg
IsRead(e, reg) == e.k = "r" /\ e.reg = reg
\* A write of a time, date or control field by a set operation
IsMutation(e) == e.k = "w" /\ e.reg \in {"TR", "DR", "CR"}
Idx == 1..Len(trace)

\* C1: in the access trace of every set_time and set_date call the first two
\* accesses are the writes of 0xCA and 0x53 to WPR; every field mutation comes
\* after them and after the ISR read of init-mode entry, with no other WPR
\* write and no init-mode exit before it; the init-mode exit comes right after
\* the last mutation and the lock byte (neither 0xCA nor 0x53) right after the
\* exit, as the last access of the call.
C1_UnlockEnterWriteExitLock ==
    op \in SetOps =>
      /\ Len(trace) >= 1 => IsWrite(trace[1], "WPR") /\ trace[1].v = KeyCA
      /\ Len(trace) >= 2 => IsWrite(trace[2], "WPR") /\ trace[2].v = Key53
      /\ \A i \in Idx : IsMutation(trace[i]) =>
            /\ i > 3
            /\ IsRead(trace[3], "ISR")
            /\ \A j \in 3..i : ~IsWrite(trace[j], "WPR")
            /\ \A j \in 1..i : ~(IsWrite(trace[j], "ISR") /\ trace[j].v = 0)
      /\ \A i \in Idx : IsWrite(trace[i], "ISR") /\ trace[i].v = 0 =>
            /\ i > 1 /\ IsMutation(trace[i - 1])
            /\ \E j \in 1..i : IsWrite(trace[j], IF op = "set_time" THEN "TR" ELSE "DR")
            /\ \A j \in (i + 1)..Len(trace) : j = i + 1 /\ IsWrite(trace[j], "WPR")
      /\ \A i \in Idx : i > 2 /\ IsWrite(trace[i], "WPR") =>
            /\ trace[i].v \notin {KeyCA, Key53}
            /\ i = Len(trace)
            /\ IsWrite(trace[i - 1], "ISR") /\ trace[i - 1].v = 0
      /\ pc = "done" =>
            /\ Len(trace) > 2
            /\ IsWrite(trace[Len(trace)], "WPR")

\* C1 witness: a set_time call has returned after writing the time register.
C1_Witness ==
    /\ op = "set_time" /\ pc = "done"
    /\ \E i \in Idx : IsWrite(trace[i], "TR")
    /\ trace[Len(trace)].v = LockKey

\* C2: every write the driver makes to the prescaler, time or date register is
\* made with write protection open and INITF set.
C2_ProtectedWritesInInitMode ==
    \A i \in Idx :
        trace[i].k = "w" /\ trace[i].reg \in {"PRER", "TR", "DR"} =>
            trace[i].open /\ trace[i].initf = 1

\* C7: no step of a get_time or get_date call changes whether write
\* protection is open, so the lock state a following set_time finds is the
\* one the reads found.
C7_GetKeepsLockState ==
    [][op' \in GetOps => ((RTC'.wpr = "unlocked") <=> (RTC.wpr = "unlocked"))]_vars

\* C7 witness: get_time has returned, its WPR write made, protection closed.
C7_Witness ==
    /\ op = "get_time" /\ pc = "done"
    /\ \E i \in Idx : IsWrite(trace[i], "WPR")
    /\ RTC.wpr = "locked"

\* C8: a get operation makes no write to any peripheral register.
C8_GetsOnlyRead ==
    op \in GetOps => \A i \in Idx : trace[i].k = "r"

\* The first ISR access of the call: the read init_mode(rtc, true) starts with.
IsEnterRead(i) == trace[i].reg = "ISR" /\ \A j \in 1..(i - 1) : trace[j].reg # "ISR"
IsRequest(e) == IsWrite(e, "ISR") /\ e.v = 1

\* C9: if the read that enters init mode finds INITF set, the call writes no
\* init request and makes no polling read (its next access is the body's);
\* if it finds INITF clear, the request is written once, right after the read,
\* and the body is reached only by a polling read that returns INITF set,
\* every polling read before that one having returned it clear.
C9_InitModeEnter ==
    \A i \in Idx : IsEnterRead(i) =>
      /\ trace[i].k = "r"
      /\ trace[i].v = 1 =>
            /\ \A j \in Idx : ~IsRequest(trace[j])
            /\ i < Len(trace) => trace[i + 1].reg # "ISR"
            /\ pc \notin {"init_req", "init_poll"}
      /\ trace[i].v = 0 =>
            /\ i < Len(trace) => IsRequest(trace[i + 1])
            /\ Cardinality({j \in Idx : IsRequest(trace[j])}) <= 1
            /\ \A j \in (i + 2)..Len(trace) :
                  (trace[j].reg # "ISR" /\ \A m \in (i + 1)..(j - 1) : trace[m].reg = "ISR") =>
                     /\ j - 1 >= i + 2
                     /\ IsRead(trace[j - 1], "ISR") /\ trace[j - 1].v = 1
                     /\ \A m \in (i + 2)..(j - 2) : IsRead(trace[m], "ISR") /\ trace[m].v = 0

\* C9 witness: a set operation that found INITF set on entry has written its
\* field right after the read.
C9_Witness ==
    /\ op \in SetOps /\ pc = "done"
    /\ IsRead(trace[3], "ISR") /\ trace[3].v = 1
    /\ trace[4].reg \in {"TR", "DR"}

ExtRegs == {"APB1ENR1", "PWR_CR1", "BDCR"}
Count(reg, v) == Cardinality({i \in Idx : IsWrite(trace[i], reg) /\ trace[i].v = v})

\* C10: in rtc() every access to the clock, power and backup-domain registers
\* comes before the first access to an RTC register; at that first access the
\* peripheral clock enable, the DBP write and the clock selection have each
\* been written exactly once, DBP has been read back set after its write, and
\* the three are in effect; no other operation touches those registers.
C10_CapabilitiesOnceBeforeRtc ==
    /\ op # "rtc" => \A i \in Idx : trace[i].reg \notin ExtRegs
    /\ op = "rtc" =>
          \A i \in Idx : trace[i].reg \notin ExtRegs =>
             /\ \A j \in Idx : trace[j].reg \in ExtRegs => j < i
             /\ Count("APB1ENR1", 1) = 1
             /\ Count("PWR_CR1", 1) = 1
             /\ Count("BDCR", 0) = 1
             /\ \E w \in Idx : \E r \in Idx :
                   /\ IsWrite(trace[w], "PWR_CR1") /\ IsRead(trace[r], "PWR_CR1")
                   /\ w < r /\ r < i /\ trace[r].v = 1
             /\ ext.rtcapben = 1 /\ ext.dbp = 1 /\ ext.rtcsel = 2 /\ ext.rtcen = 1

\* C10 witness: rtc() has written the first unlock key.
C10_Witness ==
    /\ op = "rtc"
    /\ \E i \in Idx : IsWrite(trace[i], "WPR") /\ trace[i].v = KeyCA

\* C3: for every Time with hours 0..23, minutes 0..59 and seconds 0..59,
\* get_time after set_time returns the same hours, minutes and seconds,
\* whatever the daylight-savings flag.
C3_TimeRoundTrip ==
    calc.stage = "got" =>
        /\ calc.out.hours = calc.time.hours
        /\ calc.out.minutes = calc.time.minutes
        /\ calc.out.seconds = calc.time.seconds

\* C3 witness: 23:59:59 with the flag set has been written and read back.
C3_Witness ==
    /\ calc.stage = "got"
    /\ calc.time = Time(23, 59, 59, TRUE)
    /\ calc.tr.ht = 2 /\ calc.tr.hu = 3 /\ calc.tr.st = 5 /\ calc.tr.su = 9
    /\ calc.out.hours = 23

\* C4: for every year y in 1970..2069, set_date stores the digits of y - 1970
\* in the year fields (tens = (y - 1970) div 10, units = (y - 1970) mod 10) and
\* get_date then returns year y.
C4_YearEpoch ==
    /\ calc.stage \in {"set", "got"} =>
          /\ calc.dr.yt = (calc.date.year - 1970) \div 10
          /\ calc.dr.yu = (calc.date.year - 1970) % 10
    /\ calc.stage = "got" => calc.out.year = calc.date.year

\* C4 witness: 2024 is stored as 5 and 4 and read back as 2024.
C4_Witness ==
    /\ calc.stage = "got"
    /\ calc.date = Date(3, 15, 6, 2024)
    /\ calc.dr.yt = 5 /\ calc.dr.yu = 4
    /\ calc.out.year = 2024

\* C5: for every v in 0..99, bcd2_to_byte gives v back from byte_to_bcd2(v),
\* from the pair as returned and from its elements cut to 4-bit fields.
C5_BcdRoundTrip ==
    calc.stage = "dec" => calc.back = calc.v

\* C5 witness: 99 decoded from the 4-bit fields.
C5_Witness ==
    /\ calc.stage = "dec" /\ calc.via = "fields"
    /\ calc.v = 99 /\ calc.back = 99

\* C6: for every v in 0..99, byte_to_bcd2(v) is the pair
\* (v div 10, 16 * (v div 10) + v mod 10); 0, 9, 10, 59 and 99 give
\* (0,0x00), (0,0x09), (1,0x10), (5,0x59) and (9,0x99).
C6_BcdEncoding ==
    calc.stage = "enc" =>
        /\ calc.pair = <<calc.v \div 10, 16 * (calc.v \div 10) + (calc.v % 10)>>
        /\ calc.v = 0 => calc.pair = <<0, 0>>
        /\ calc.v = 9 => calc.pair = <<0, 9>>
        /\ calc.v = 10 => calc.pair = <<1, 16>>
        /\ calc.v = 59 => calc.pair = <<5, 89>>
        /\ calc.v = 99 => calc.pair = <<9, 153>>

\* C6 witness: 59 encoded as (5, 0x59).
C6_Witness ==
    /\ calc.stage = "enc"
    /\ calc.v = 59 /\ calc.pair = <<5, 89>>

\* C11: whenever no driver operation is in progress (rtc() or a set or get
\* call has returned) write protection is closed and the init request bit is
\* clear, so INITF, if still set, can only be cleared by the peripheral.
C11_IdleLockedAndNormal ==
    pc = "done" =>
        /\ RTC.wpr = "locked"
        /\ RTC.init = 0
        /\ ~ENABLED HwInitfSet

\* C11 witness: a set_date call has returned and the peripheral has left
\* initialization mode.
C11_Witness ==
    /\ op = "set_date" /\ pc = "done"
    /\ RTC.wpr = "locked" /\ RTC.init = 0 /\ RTC.initf = 0

\* The peripheral answers: a polled DBP is eventually read back set, a polled
\* INITF is eventually set.
HwReports ==
    /\ [](pc = "dbp_poll" => <>(ext.dbp = 1))
    /\ [](pc = "init_poll" => <>(RTC.initf = 1))

\* C12: if the peripheral answers, every operation eventually returns;
\* get_time and get_date return whether it answers or not; and as long as
\* the polled bit is not reported the caller stays in its polling loop and
\* no value is produced.
C12_ReturnsUnlessNeverReported ==
    /\ HwReports => [](pc # "done" => <>(pc = "done"))
    /\ [](op \in GetOps => <>(pc = "done"))
    /\ [][(\/ pc = "dbp_poll" /\ ext.dbp = 0
           \/ pc = "init_poll" /\ RTC.initf = 0) => pc' = pc /\ ret' = ret]_vars

\* C12 witness: a set_time call has returned after a polling read that found
\* INITF still clear.
C12_Witness ==
    /\ op = "set_time" /\ pc = "done"
    /\ \E i \in Idx : i > 3 /\ IsRead(trace[i], "ISR") /\ trace[i].v = 0

\* The statements of rtc() that follow the two BDCR writes.
PastClockSelect == op = "rtc" /\ pc \notin {"apb1_enr", "pwr_read", "dbp_set", "dbp_poll", "bdrst", "clk_sel"}

\* C13 as stated: the reset bit is cleared after the clock source has been
\* selected, i.e. the step that clears it starts with the source selected.
C13_ResetClearedAfterSelection ==
    [][ext.bdrst = 1 /\ ext'.bdrst = 0 => ext.rtcsel = 2]_vars

\* C13: during rtc() the backup-domain reset bit is set before the clock
\* source is selected and is cleared by the very register write that selects
\* the source and sets RTCEN (not by a later one); the bit is clear, the
\* source selected and RTCEN set when rtc() goes on to the RTC registers.
C13_ResetPulseAroundSelection ==
    /\ [](PastClockSelect =>
            /\ ext.bdrst = 0 /\ ext.rtcsel = 2 /\ ext.rtcen = 1
            /\ Count("BDCR", 1) = 1 /\ Count("BDCR", 0) = 1
            /\ \E i, j \in Idx :
                  /\ i < j
                  /\ IsWrite(trace[i], "BDCR") /\ trace[i].v = 1
                  /\ IsWrite(trace[j], "BDCR") /\ trace[j].v = 0)
    /\ [][ext.rtcsel # 2 /\ ext'.rtcsel = 2 =>
            ext.bdrst = 1 /\ ext'.bdrst = 0 /\ ext'.rtcen = 1]_vars
    /\ [][ext.bdrst = 1 /\ ext'.bdrst = 0 => ext.rtcsel # 2 /\ ext'.rtcsel = 2]_vars

\* C13 witness: rtc() is about to unlock the RTC registers, the reset pulse
\* done and the clock selected.
C13_Witness ==
    /\ op = "rtc" /\ pc = "wp_off" /\ wpi = 0
    /\ ext.bdrst = 0 /\ ext.rtcsel = 2 /\ ext.rtcen = 1

\* The writes of the call to RTC registers, in order, as <<register, value>>.
RtcWrites ==
    LET ws == SelectSeq(trace, LAMBDA e : e.k = "w" /\ e.reg \notin ExtRegs)
    IN  [i \in 1..Len(ws) |-> <<ws[i].reg, ws[i].v>>]

\* C14: the RTC register writes of a finished rtc() are, in this order, 0xCA
\* and 0x53 to WPR, the init request, CR, PRER, the init exit, OR and the lock
\* byte; INITF is read back set after the request and before the CR write, no
\* ISR read comes after it, and CR and PRER are written with protection open
\* and INITF set, OR with protection open.
C14_RtcRegisterOrder ==
    (op = "rtc" /\ pc = "done") =>
      /\ RtcWrites = << <<"WPR", KeyCA>>, <<"WPR", Key53>>, <<"ISR", 1>>,
                        <<"CR", 0>>, <<"PRER", 0>>, <<"ISR", 0>>,
                        <<"OR", 0>>, <<"WPR", LockKey>> >>
      /\ \E r, e, c \in Idx :
            /\ r < e /\ e < c
            /\ IsRequest(trace[r])
            /\ IsRead(trace[e], "ISR") /\ trace[e].v = 1
            /\ IsRead(trace[c], "CR")
            /\ \A j \in c..Len(trace) : ~IsRead(trace[j], "ISR")
      /\ \A i \in Idx :
            /\ IsWrite(trace[i], "CR") \/ IsWrite(trace[i], "PRER") =>
                  trace[i].open /\ trace[i].initf = 1
            /\ IsWrite(trace[i], "OR") => trace[i].open
      /\ IsWrite(trace[Len(trace)], "WPR")

\* C14 witness: rtc() has returned, OR written and the lock byte last.
C14_Witness ==
    /\ op = "rtc" /\ pc = "done"
    /\ \E i \in Idx : IsWrite(trace[i], "OR")
    /\ trace[Len(trace)].v = LockKey

\* ck_spre frequency for an RTC input clock of f Hz: f / ((a + 1) * (s + 1))
Divided(f, prer) == f \div ((prer.prediv_a + 1) * (prer.prediv_s + 1))

\* C15: when rtc() has returned CR holds fmt clear (24-hour), osel 00 (output
\* disabled) and pol clear, both written by the call, and PRER holds
\* prediv_a = 127 and prediv_s = 255, which divide by 128 * 256 = 32768: a
\* 32768 Hz input gives exactly 1 Hz.
C15_FixedParameters ==
    (op = "rtc" /\ pc = "done") =>
      /\ RTC.cr = [fmt |-> FALSE, osel |-> 0, pol |-> FALSE]
      /\ RTC.prer.prediv_a = 127
      /\ RTC.prer.prediv_s = 255
      /\ (RTC.prer.prediv_a + 1) * (RTC.prer.prediv_s + 1) = 32768
      /\ Divided(32768, RTC.prer) = 1
      /\ 32768 % ((RTC.prer.prediv_a + 1) * (RTC.prer.prediv_s + 1)) = 0
      /\ \E i, j \in Idx : i < j /\ IsWrite(trace[i], "CR") /\ IsWrite(trace[j], "PRER")

\* C15 witness: rtc() has returned with the prescaler written and in place.
C15_Witness ==
    /\ op = "rtc" /\ pc = "done"
    /\ \E i \in Idx : IsWrite(trace[i], "PRER")
    /\ RTC.prer = [prediv_s |-> 255, prediv_a |-> 127]
    /\ ~RTC.cr.fmt

\* The daylight-savings flag of the most recent set_time, FALSE if there was
\* none since rtc().
LastFlag == IF last.time = NoValue THEN FALSE ELSE last.time.daylight_savings

\* C16: once set_time(t) has made its CR write, and until the next set_time,
\* CR.fmt equals t.daylight_savings; before the first set_time it is FALSE;
\* every get_time returns that flag, whatever set_date, get_time and get_date
\* calls came in between.
C16_FormatTracksFlag ==
    /\ (op = "set_time" /\ pc \in {"init_exit", "wp_on", "done"}) =>
            RTC.cr.fmt = arg.daylight_savings /\ arg = last.time
    /\ (op \in {"set_date", "get_time", "get_date"} \/ (op = "rtc" /\ pc = "done")) =>
            RTC.cr.fmt = LastFlag
    /\ (op = "get_time" /\ pc \in {"wp_on", "done"}) =>
            ret.daylight_savings = LastFlag

\* C16 witness: get_time returns a set flag that a set_time stored, a
\* set_date having run as well.
C16_Witness ==
    /\ op = "get_time" /\ pc = "done"
    /\ last.time # NoValue /\ last.date # NoValue
    /\ last.time.daylight_savings /\ ret.daylight_savings

\* C17: for every Date with day (the weekday) in 1..7, date in 1..31 and month
\* in 1..12, set_date stores the weekday unencoded in the 3-bit wdu field, the
\* day of month and the month as decimal digits, the month's tens digit as the
\* single bit mt, set exactly for months 10, 11 and 12, and get_date returns
\* the same weekday, day of month and month.
C17_DateRoundTrip ==
    /\ calc.stage \in {"set", "got"} =>
          /\ calc.dr.wdu = calc.date.day
          /\ calc.dr.wdu \in 0..7
          /\ calc.dr.dt = calc.date.date \div 10
          /\ calc.dr.du = calc.date.date % 10
          /\ calc.dr.mt <=> calc.date.month \in {10, 11, 12}
          /\ calc.dr.mu = calc.date.month % 10
    /\ calc.stage = "got" =>
          /\ calc.out.day = calc.date.day
          /\ calc.out.date = calc.date.date
          /\ calc.out.month = calc.date.month

\* C17 witness: Sunday 31 December is stored as wdu 7, 3 and 1, mt and 2,
\* and read back.
C17_Witness ==
    /\ calc.stage = "got"
    /\ calc.date.day = 7 /\ calc.date.date = 31 /\ calc.date.month = 12
    /\ calc.dr.wdu = 7 /\ calc.dr.dt = 3 /\ calc.dr.du = 1
    /\ calc.dr.mt /\ calc.dr.mu = 2
    /\ calc.out.day = 7 /\ calc.out.date = 31 /\ calc.out.month = 12

\* C18: for every u8 value v in 100..255 byte_to_bcd2(v) returns a pair (the
\* loop ends after v div 10 subtractions, no u8 operation leaves its range):
\* its high digit is v div 10, which is 10..25 and so no decimal digit, and
\* its packed byte is the u8 (high << 4) | (v mod 10).
C18_EncoderUnvalidated ==
    (calc.stage = "enc" /\ calc.v \in 100..255) =>
        /\ calc.pair[1] = calc.v \div 10
        /\ calc.pair[1] > 9
        /\ calc.pair[1] \in 10..25
        /\ calc.pair[2] = ((calc.pair[1] * 16) % 256) + (calc.v % 10)
        /\ calc.pair[2] \in 0..255

\* C18 witness: 255 encoded with high digit 25, the packed byte cut to 0x95.
C18_Witness ==
    /\ calc.stage = "enc"
    /\ calc.v = 255 /\ calc.pair = <<25, 149>>

\* C19: no step of a set_time call changes DR or PRER; no step of a set_date
\* call changes TR, CR.fmt or PRER; so, whatever calls came in between,
\* get_time returns the Time of the most recent set_time and get_date the
\* Date of the most recent set_date.
C19_SetFrames ==
    /\ [][op' = "set_time" => RTC'.dr = RTC.dr /\ RTC'.prer = RTC.prer]_vars
    /\ [][op' = "set_date" =>
            /\ RTC'.tr = RTC.tr
            /\ RTC'.cr.fmt = RTC.cr.fmt
            /\ RTC'.prer = RTC.prer]_vars
    /\ []((op = "get_time" /\ pc = "done" /\ last.time # NoValue) => ret = last.time)
    /\ []((op = "get_date" /\ pc = "done" /\ last.date # NoValue) => ret = last.date)

\* C19 witness: a set_date call made after set_time(23:59:59) has returned,
\* its date stored and the time register still holding 23:59:59.
C19_Witness ==
    /\ op = "set_date" /\ pc = "done"
    /\ \E i \in Idx : IsWrite(trace[i], "DR")
    /\ last.time = Time(23, 59, 59, FALSE)
    /\ RTC.tr = set_time_tr(last.time)
    /\ RTC.dr = set_date_dr(arg)
    /\ ~RTC.cr.fmt

\* The step is a write of the driver to ISR (init_mode's request or exit).
IsrWritten ==
    /\ Len(trace') = Len(trace) + 1
    /\ IsWrite(trace'[Len(trace')], "ISR")

\* C20: the writes of init_mode to ISR change the INIT bit only: the other
\* bits of the register (INITF, RSF) hold after the write what they held
\* before it.
C20_InitWritesOnlyInitBit ==
    [][IsrWritten => RTC'.initf = RTC.initf /\ RTC'.rsf = RTC.rsf]_vars

====
